---- MODULE Spec2Model ----
(***************************************************************************)
(* docker-wrapper (src/main.rs): a drop-in `docker` front end that makes   *)
(* sure a WSL guest with a docker engine exists and runs, rewrites the     *)
(* `source=` paths of `create --mount` specifications with `wslpath -u`,   *)
(* and forwards the argument vector to the native docker client.           *)
(*                                                                         *)
(* Strings are sequences of one-character strings, so that split, join,    *)
(* trim and starts_with are computed the way the code computes them.       *)
(***************************************************************************)
EXTENDS Integers, Sequences, FiniteSets, TLC

(***************************************************************************)
(* Bounds of the model.                                                    *)
(***************************************************************************)
\* longest argument vector an invocation is given
MaxArgs == 4
\* largest exit code an external command returns
MaxExit == 2

(***************************************************************************)
(* String literals of the program.                                         *)
(***************************************************************************)
S_create == <<"c","r","e","a","t","e">>
S_mount == <<"-","-","m","o","u","n","t">>
S_source == <<"s","o","u","r","c","e","=">>
Comma == ","
\* char::is_whitespace, restricted to the characters the model uses
Whitespace == {" ", "\n", "\t"}
\* find_native_docker_cli_path(): home_dir()/scoop/shims/docker.exe
NativeCliPath == <<"~","/","s","c","o","o","p","/","s","h","i","m","s","/",
                   "d","o","c","k","e","r",".","e","x","e">>

\* anyhow messages of the bail!/ensure! sites
MsgNoCli == "failed to find native docker cli at ~/scoop/shims/docker.exe"
MsgContext == "failed to create docker context"
MsgDownload == "failed to download rootfs"
MsgImport == "failed to import distro"
MsgInstall == "failed to install docker engine"
MsgDetachKeys == "failed to set up detach keys"
MsgBuildkit == "failed to set up buildkit"
MsgDocker == "docker failed"
\* an std::io::Error carried up by `?` (spawn, wait, create_dir_all)
MsgIo == "io error"

(***************************************************************************)
(* Argument strings the invocations are given.                             *)
(***************************************************************************)
A_run == <<"r","u","n">>
\* the flag with surrounding whitespace: " --mount "
A_mountSp == <<" ">> \o S_mount \o <<" ">>
\* "type=b,source=C:\a,target=/d"
A_bind == <<"t","y","p","e","=","b",",">> \o S_source \o <<"C",":","\\","a",",",
            "t","a","r","g","e","t","=","/","d">>
\* "source=C:\a"
A_src == S_source \o <<"C",":","\\","a">>
\* "type=v,,xsource=a": no option begins with source=, one option is empty
A_nosrc == <<"t","y","p","e","=","v",",",",","x">> \o S_source \o <<"a">>
\* ""
A_empty == <<>>
\* "--mount=source=C:\a": the single-argument form
A_mountEq == S_mount \o <<"=">> \o A_src

\* "reset-registration" and "stop-daemon": the maintenance subcommands
A_reset == <<"r","e","s","e","t","-","r","e","g","i","s","t","r","a","t","i","o","n">>
A_stop == <<"s","t","o","p","-","d","a","e","m","o","n">>
\* the invocations with a maintenance subcommand alone
ReservedVectors == {<<A_reset>>, <<A_stop>>}

\* arguments of the full bootstrap-to-forward runs
CorePool == {S_create, A_run, S_mount, A_bind}
\* arguments of the rewriter runs
ArgPool == {S_create, A_run, S_mount, A_mountSp, A_bind, A_src, A_nosrc,
            A_empty, A_mountEq}

RECURSIVE SeqsUpTo(_, _)
SeqsUpTo(S, n) ==
    IF n = 0 THEN {<<>>}
    ELSE LET shorter == SeqsUpTo(S, n - 1)
         IN shorter \cup {Append(v, a) : v \in {w \in shorter : Len(w) = n - 1}, a \in S}

ArgVectors(pool) == SeqsUpTo(pool, MaxArgs) \cup ReservedVectors

(***************************************************************************)
(* String functions of the standard library, as the code uses them.        *)
(***************************************************************************)
\* str::starts_with
StartsWith(s, p) ==
    /\ Len(s) >= Len(p)
    /\ SubSeq(s, 1, Len(p)) = p

\* str::trim: drop leading and trailing whitespace
RECURSIVE TrimStart(_)
TrimStart(s) ==
    IF s # <<>> /\ Head(s) \in Whitespace THEN TrimStart(Tail(s)) ELSE s

RECURSIVE TrimEnd(_)
TrimEnd(s) ==
    IF s # <<>> /\ s[Len(s)] \in Whitespace
    THEN TrimEnd(SubSeq(s, 1, Len(s) - 1))
    ELSE s

Trim(s) == TrimEnd(TrimStart(s))

\* index of the first comma of s, 0 when there is none
FirstComma(s) ==
    IF \E j \in 1..Len(s) : s[j] = Comma
    THEN CHOOSE j \in 1..Len(s) : s[j] = Comma /\ \A h \in 1..(j - 1) : s[h] # Comma
    ELSE 0

\* Split that drops the empty pieces
RECURSIVE SplitNonEmpty(_)
SplitNonEmpty(s) ==
    LET j == FirstComma(s)
        head == IF j = 0 THEN s ELSE SubSeq(s, 1, j - 1)
        rest == IF j = 0 THEN <<>> ELSE SplitNonEmpty(SubSeq(s, j + 1, Len(s)))
    IN IF head = <<>> THEN rest ELSE <<head>> \o rest

\* arg.split(',').collect(): always at least one piece, empty pieces kept
RECURSIVE Split(_)
Split(s) ==
    LET j == FirstComma(s)
    IN IF j = 0 THEN <<s>>
       ELSE <<SubSeq(s, 1, j - 1)>> \o Split(SubSeq(s, j + 1, Len(s)))

\* opts.join(",")
RECURSIVE Join(_)
Join(opts) ==
    IF opts = <<>> THEN <<>>
    ELSE IF Len(opts) = 1 THEN opts[1]
    ELSE opts[1] \o <<Comma>> \o Join(Tail(opts))

(***************************************************************************)
(* External commands.  Every external program is a black box: it may fail  *)
(* to spawn (run/output return Err through `?`), or run and exit with a    *)
(* code.                                                                   *)
(***************************************************************************)
NotSpawned == [spawned |-> FALSE, exit |-> 0]
Exited(e) == [spawned |-> TRUE, exit |-> e]
\* outcomes of a command whose exit code is only tested for success
CmdOutcomes == {NotSpawned} \cup {Exited(e) : e \in 0..1}
\* outcomes of the forwarded engine command
ForwardOutcomes == {NotSpawned} \cup {Exited(e) : e \in 0..MaxExit}

\* ExitStatus::success()
Success(o) == o.spawned /\ o.exit = 0

\* run(args, silent, set_context): the spawned process as the log records it;
\* DOCKER_CONTEXT is set on it iff set_context
Run(cmd, prog, set_context, o) ==
    [cmd |-> cmd, prog |-> prog, ctx |-> set_context,
     spawned |-> o.spawned, exit |-> o.exit]

\* the guest command spawned with the context variable set
RunInWslWithContext(cmd, o) == Run(cmd, "wsl", TRUE, o)

\* run_in_wsl(args_in_wsl, silent) = run(wsl -d DISTRO_NAME -e ..., silent, false)
RunInWsl(cmd, o) == Run(cmd, "wsl", FALSE, o)

\* output(args, set_context): same process, stdout captured, exit code dropped
Output(cmd, prog, set_context, o) == Run(cmd, prog, set_context, o)

\* run(..)?; with the returned bool dropped: only a failed spawn is an error
Unchecked(o, next) ==
    IF ~o.spawned THEN [pc |-> "exit", err |-> MsgIo, code |-> 1]
    ELSE [pc |-> next, err |-> "", code |-> 0]

\* the returned bool of a checked command dropped as well
EnsureDropped(o, msg, next) == Unchecked(o, next)

\* ensure!(run(..)?, msg): Err(io) when the spawn fails, Err(msg) when the
\* command exits non-zero, else control goes on to `next`
Ensure(o, msg, next) ==
    IF ~o.spawned THEN [pc |-> "exit", err |-> MsgIo, code |-> 1]
    ELSE IF o.exit # 0 THEN [pc |-> "exit", err |-> msg, code |-> 1]
    ELSE [pc |-> next, err |-> "", code |-> 0]

(***************************************************************************)
(* wslpath -u inside the guest: C:\a becomes /mnt/c/a.  On success the     *)
(* path is printed with a newline; on failure nothing is printed on        *)
(* standard output (the message goes to standard error).                   *)
(***************************************************************************)
LowerDrive(c) == IF c = "C" THEN "c" ELSE c

ToSlashes(s) == [j \in 1..Len(s) |-> IF s[j] = "\\" THEN "/" ELSE s[j]]

WslPathU(p) ==
    IF Len(p) >= 2 /\ p[2] = ":"
    THEN <<"/","m","n","t","/", LowerDrive(p[1])>> \o ToSlashes(SubSeq(p, 3, Len(p)))
    ELSE ToSlashes(p)

WslPathStdout(from, o) ==
    IF o.exit = 0 THEN WslPathU(from) \o <<"\n">> ELSE <<>>

\* convert_path(from): output(..).map(|s| s.trim().to_string()); the exit
\* code of the utility is not looked at
ConvertPath(from, o) == Trim(WslPathStdout(from, o))

(***************************************************************************)
(* Tests of the argument rewriter.                                         *)
(***************************************************************************)
\* the mount pass run whatever the subcommand is
IsCreateAny(v) == TRUE

\* args[0] == "create"
IsCreate(v) == v[1] = S_create

\* arg.trim() == "--mount"
IsMountFlag(arg) == Trim(arg) = S_mount

\* opt.starts_with("source=")
IsSourceOpt(opt) == StartsWith(opt, S_source)

\* &opt["source=".len()..]
SourceValue(opt) == SubSeq(opt, Len(S_source) + 1, Len(opt))

\* the option rebuilt without its key
SourceOptBare(path) == path

\* format!("source={path}")
SourceOpt(path) == S_source \o path

(***************************************************************************)
(* State.                                                                  *)
(***************************************************************************)
VARIABLES
    cliExists,        \* the native client binary exists at NativeCliPath
    ctxListed,        \* `docker context ls` lists CONTEXT_NAME
    archive,          \* rootfs.tar.gz exists under the distro directory
    imported,         \* the guest distro is registered
    installed,        \* `which docker` succeeds inside the guest
    cfgClient,        \* ~/.docker/config was written in the guest
    cfgDaemon,        \* /etc/docker/daemon.json was written in the guest
    pc,               \* position of the running invocation
    args0,            \* the arguments as read from the command line
    args,             \* the argument vector, rewritten in place
    i,                \* fix_bind_mount_path: index of `arg` (1-based)
    is_mount_option,  \* fix_bind_mount_path: the local of that name
    opts,             \* fix_bind_mount_path: the split options of `arg`
    k,                \* fix_bind_mount_path: index of `opt` (1-based)
    log,              \* external processes spawned by this invocation, in order
    xlate,            \* convert_path calls of this invocation: argument and result
    errMsg,           \* message of the Err main returned, "" when none
    exitCode,         \* exit status of the invocation once pc = "exit"
    forwarded         \* vector handed to the native client, <<>> when none

envVars == <<cliExists, ctxListed, archive, imported, installed, cfgClient, cfgDaemon>>
loopVars == <<i, is_mount_option, opts, k>>
argVars == <<args0, args, xlate, forwarded>>
vars == <<envVars, pc, loopVars, argVars, log, errMsg, exitCode>>

\* control leaves a checked command
Goto(r) ==
    /\ pc' = r.pc
    /\ errMsg' = r.err
    /\ exitCode' = r.code

\* the per-invocation state of a process that has just started
FreshInvocation ==
    /\ args0 = <<>>
    /\ args = <<>>
    /\ i = 0
    /\ is_mount_option = FALSE
    /\ opts = <<>>
    /\ k = 0
    /\ log = <<>>
    /\ xlate = <<>>
    /\ errMsg = ""
    /\ exitCode = 0
    /\ forwarded = <<>>

\* a machine on which nothing was set up yet
Init ==
    /\ cliExists \in BOOLEAN
    /\ ctxListed = FALSE
    /\ archive = FALSE
    /\ imported = FALSE
    /\ installed = FALSE
    /\ cfgClient = FALSE
    /\ cfgDaemon = FALSE
    /\ pc = "cli"
    /\ FreshInvocation

(***************************************************************************)
(* ensure_native_docker_cli                                                *)
(***************************************************************************)
\* the existence of the native client not looked at
CheckNativeCliSkipped ==
    /\ pc = "cli"
    /\ Goto([pc |-> "ctxls", err |-> "", code |-> 0])
    /\ UNCHANGED <<envVars, loopVars, argVars, log>>

\* if !native_cli.exists() { bail!(..) }
CheckNativeCli ==
    /\ pc = "cli"
    /\ IF cliExists
       THEN Goto([pc |-> "ctxls", err |-> "", code |-> 0])
       ELSE Goto([pc |-> "exit", err |-> MsgNoCli, code |-> 1])
    /\ UNCHANGED <<envVars, loopVars, argVars, log>>

\* the context created without looking at the listing
ContextLsAlwaysCreate ==
    /\ pc = "ctxls"
    /\ \E o \in CmdOutcomes :
        /\ log' = Append(log, Output("context ls", "docker.exe", FALSE, o))
        /\ Goto(Unchecked(o, "ctxcreate"))
    /\ UNCHANGED <<envVars, loopVars, argVars>>

\* output(&[native_cli, "context", "ls"], false)?.contains(CONTEXT_NAME)
ContextLs ==
    /\ pc = "ctxls"
    /\ \E o \in CmdOutcomes :
        /\ log' = Append(log, Output("context ls", "docker.exe", FALSE, o))
        /\ Goto(Unchecked(o, IF ctxListed /\ o.exit = 0 THEN "probe" ELSE "ctxcreate"))
    /\ UNCHANGED <<envVars, loopVars, argVars>>

\* ensure!(run(&[native_cli, "context", "create", ..], true, false)?, ..)
ContextCreate ==
    /\ pc = "ctxcreate"
    /\ \E o \in CmdOutcomes :
        /\ log' = Append(log, Run("context create", "docker.exe", FALSE, o))
        /\ ctxListed' = (ctxListed \/ Success(o))
        /\ Goto(Ensure(o, MsgContext, "probe"))
    /\ UNCHANGED <<cliExists, archive, imported, installed, cfgClient, cfgDaemon,
                   loopVars, argVars>>

(***************************************************************************)
(* ensure_docker, setup_docker_distro                                      *)
(***************************************************************************)
\* the bootstrap run whatever the probe says
AfterProbeAlways(ok) == "setup"

\* the service start left out when the probe succeeds
AfterProbeNoStart(ok) == IF ~ok THEN "setup" ELSE "modify"

\* where ensure_docker goes after the probe: bootstrap only when it failed
AfterProbe(ok) == IF ~ok THEN "setup" ELSE "start"

\* if !run_in_wsl(&["which", "docker"], true)? { setup_docker_distro()?; }
\* The probe finds docker iff the guest is registered and the engine installed.
Probe ==
    /\ pc = "probe"
    /\ \E o \in {NotSpawned, Exited(IF imported /\ installed THEN 0 ELSE 1)} :
        /\ log' = Append(log, RunInWsl("probe", o))
        /\ Goto(Unchecked(o, AfterProbe(Success(o))))
    /\ UNCHANGED <<envVars, loopVars, argVars>>

\* the archive downloaded whether or not it is there
AfterSetupAlways(exists) == "download"

\* the archive never downloaded
AfterSetupNever(exists) == "import"

\* where download_and_import_rootfs goes after create_dir_all:
\* if !download_path.exists() { curl } and then wsl --import
AfterSetup(exists) == IF ~exists THEN "download" ELSE "import"

\* download_and_import_rootfs up to the first command: fs::create_dir_all(..)?
SetupDistro ==
    /\ pc = "setup"
    /\ \E dirOk \in BOOLEAN :
        IF dirOk
        THEN Goto([pc |-> AfterSetup(archive), err |-> "", code |-> 0])
        ELSE Goto([pc |-> "exit", err |-> MsgIo, code |-> 1])
    /\ UNCHANGED <<envVars, loopVars, argVars, log>>

\* ensure!(run(&["curl", "-L", URL, "-o", download_path], ..)?, ..)
\* A failed download may or may not leave a file behind.
Download ==
    /\ pc = "download"
    /\ \E o \in CmdOutcomes, left \in BOOLEAN :
        /\ log' = Append(log, Run("download", "curl", FALSE, o))
        /\ archive' = IF Success(o) THEN TRUE ELSE (archive \/ (o.spawned /\ left))
        /\ Goto(Ensure(o, MsgDownload, "import"))
    /\ UNCHANGED <<cliExists, ctxListed, imported, installed, cfgClient, cfgDaemon,
                   loopVars, argVars>>

\* ensure!(run(&["wsl", "--import", DISTRO_NAME, root, archive], ..)?, ..)
Import ==
    /\ pc = "import"
    /\ \E o \in CmdOutcomes :
        /\ log' = Append(log, Run("import", "wsl", FALSE, o))
        /\ imported' = (imported \/ Success(o))
        /\ Goto(Ensure(o, MsgImport, "install"))
    /\ UNCHANGED <<cliExists, ctxListed, archive, installed, cfgClient, cfgDaemon,
                   loopVars, argVars>>

(***************************************************************************)
(* setup_docker_on_distro                                                  *)
(***************************************************************************)
\* ensure!(run_in_wsl(&["sh", "-c", "curl -fsSL https://get.docker.com/ | sh"], ..)?, ..)
InstallEngine ==
    /\ pc = "install"
    /\ \E o \in CmdOutcomes :
        /\ log' = Append(log, RunInWsl("install", o))
        /\ installed' = (installed \/ Success(o))
        /\ Goto(Ensure(o, MsgInstall, "cfgclient"))
    /\ UNCHANGED <<cliExists, ctxListed, archive, imported, cfgClient, cfgDaemon,
                   loopVars, argVars>>

\* ensure!(run_in_wsl(&["sh", "-c", "mkdir -p ~/.docker && echo .. > ~/.docker/config"], ..)?, ..)
WriteClientConfig ==
    /\ pc = "cfgclient"
    /\ \E o \in CmdOutcomes :
        /\ log' = Append(log, RunInWsl("cfgclient", o))
        /\ cfgClient' = (cfgClient \/ Success(o))
        /\ Goto(Ensure(o, MsgDetachKeys, "cfgdaemon"))
    /\ UNCHANGED <<cliExists, ctxListed, archive, imported, installed, cfgDaemon,
                   loopVars, argVars>>

\* ensure!(run_in_wsl(&["sh", "-c", "mkdir -p /etc/docker && echo .. > /etc/docker/daemon.json"], ..)?, ..)
WriteDaemonConfig ==
    /\ pc = "cfgdaemon"
    /\ \E o \in CmdOutcomes :
        /\ log' = Append(log, RunInWsl("cfgdaemon", o))
        /\ cfgDaemon' = (cfgDaemon \/ Success(o))
        /\ Goto(Ensure(o, MsgBuildkit, "start"))
    /\ UNCHANGED <<cliExists, ctxListed, archive, imported, installed, cfgClient,
                   loopVars, argVars>>

\* how ensure_docker treats the result of the service start:
\* run_in_wsl(&["/sbin/service", "docker", "start"], true)?;
StartResult(o) == Unchecked(o, "modify")

ServiceStart ==
    /\ pc = "start"
    /\ \E o \in CmdOutcomes :
        /\ log' = Append(log, RunInWsl("start", o))
        /\ Goto(StartResult(o))
    /\ UNCHANGED <<envVars, loopVars, argVars>>

(***************************************************************************)
(* main: read the arguments; modify_args; fix_bind_mount_path              *)
(***************************************************************************)
\* where modify_args goes: fix_bind_mount_path only for a non-empty vector
\* whose first argument is "create"
AfterModify(v) ==
    IF v = <<>> THEN "forward"
    ELSE IF IsCreate(v) THEN "fix" ELSE "forward"

\* let mut args = std::env::args().skip(1).collect(); modify_args(&mut args)
ModifyArgs(pool) ==
    /\ pc = "modify"
    /\ \E v \in ArgVectors(pool) :
        /\ args0' = v
        /\ args' = v
        /\ pc' = AfterModify(v)
        /\ i' = IF AfterModify(v) = "fix" THEN 1 ELSE 0
    /\ UNCHANGED <<envVars, is_mount_option, opts, k, xlate, forwarded, log,
                   errMsg, exitCode>>

\* loop body for an argument that is not taken as a mount specification:
\* if arg.trim() == "--mount" { is_mount_option = true; }
FixArg ==
    /\ pc = "fix"
    /\ i <= Len(args)
    /\ ~is_mount_option
    /\ is_mount_option' = IsMountFlag(args[i])
    /\ i' = i + 1
    /\ UNCHANGED <<envVars, pc, opts, k, argVars, log, errMsg, exitCode>>

\* the argument after a flag taken as a specification and as a flag too
FixSplitRearm ==
    /\ pc = "fix"
    /\ i <= Len(args)
    /\ is_mount_option
    /\ is_mount_option' = IsMountFlag(args[i])
    /\ opts' = Split(args[i])
    /\ k' = 1
    /\ pc' = "opts"
    /\ UNCHANGED <<envVars, i, argVars, log, errMsg, exitCode>>

\* loop body for the argument after a flag: is_mount_option = false;
\* let mut opts = arg.split(',')..collect();
FixSplit ==
    /\ pc = "fix"
    /\ i <= Len(args)
    /\ is_mount_option
    /\ is_mount_option' = FALSE
    /\ opts' = Split(args[i])
    /\ k' = 1
    /\ pc' = "opts"
    /\ UNCHANGED <<envVars, i, argVars, log, errMsg, exitCode>>

\* for opt in &mut opts: an option that does not start with "source="
FixOptKeep ==
    /\ pc = "opts"
    /\ k <= Len(opts)
    /\ ~IsSourceOpt(opts[k])
    /\ k' = k + 1
    /\ UNCHANGED <<envVars, pc, i, is_mount_option, opts, argVars, log, errMsg,
                   exitCode>>

\* for opt in &mut opts: let path = convert_path(&opt[7..])?;
\* *opt = format!("source={path}");
FixOptConvert ==
    /\ pc = "opts"
    /\ k <= Len(opts)
    /\ IsSourceOpt(opts[k])
    /\ \E o \in CmdOutcomes :
        LET from == SourceValue(opts[k])
            path == ConvertPath(from, o)
        IN /\ log' = Append(log, Output("wslpath", "wsl", FALSE, o))
           /\ Goto(Unchecked(o, "opts"))
           /\ IF o.spawned
              THEN /\ opts' = [opts EXCEPT ![k] = SourceOpt(path)]
                   /\ xlate' = Append(xlate, [from |-> from, to |-> path])
                   /\ k' = k + 1
              ELSE UNCHANGED <<opts, xlate, k>>
    /\ UNCHANGED <<envVars, i, is_mount_option, args0, args, forwarded>>

\* *arg = opts.join(","); continue;
FixJoin ==
    /\ pc = "opts"
    /\ k > Len(opts)
    /\ args' = [args EXCEPT ![i] = Join(opts)]
    /\ i' = i + 1
    /\ opts' = <<>>
    /\ k' = 0
    /\ pc' = "fix"
    /\ UNCHANGED <<envVars, is_mount_option, args0, xlate, forwarded, log, errMsg,
                   exitCode>>

\* the loop is over: fix_bind_mount_path and modify_args return Ok(())
FixDone ==
    /\ pc = "fix"
    /\ i > Len(args)
    /\ pc' = "forward"
    /\ i' = 0
    /\ is_mount_option' = FALSE
    /\ UNCHANGED <<envVars, opts, k, argVars, log, errMsg, exitCode>>

(***************************************************************************)
(* main: forward to the native client                                      *)
(***************************************************************************)
\* the vector built with the first argument skipped once more
NativeArgsSkip(v) ==
    IF v = <<>> THEN <<NativeCliPath>> ELSE <<NativeCliPath>> \o Tail(v)

\* let mut native_args = vec![native_cli_path]; native_args.extend(args..)
NativeArgs(v) == <<NativeCliPath>> \o v

\* ensure!(run(&native_args, false, true)?, "docker failed"); Ok(())
\* main returning Err makes the process exit with status 1, Ok(()) with 0.
Forward ==
    /\ pc = "forward"
    /\ \E o \in ForwardOutcomes :
        /\ forwarded' = NativeArgs(args)
        /\ log' = Append(log, Run("forward", "docker.exe", TRUE, o))
        /\ Goto(Ensure(o, MsgDocker, "exit"))
    /\ UNCHANGED <<envVars, loopVars, args0, args, xlate>>

\* the process has exited; the user runs the tool again
Restart ==
    /\ pc = "exit"
    /\ pc' = "cli"
    /\ args0' = <<>>
    /\ args' = <<>>
    /\ i' = 0
    /\ is_mount_option' = FALSE
    /\ opts' = <<>>
    /\ k' = 0
    /\ log' = <<>>
    /\ xlate' = <<>>
    /\ errMsg' = ""
    /\ exitCode' = 0
    /\ forwarded' = <<>>
    /\ UNCHANGED envVars

(***************************************************************************)
(* Specifications.                                                         *)
(***************************************************************************)
Next ==
    \/ CheckNativeCli
    \/ ContextLs
    \/ ContextCreate
    \/ Probe
    \/ SetupDistro
    \/ Download
    \/ Import
    \/ InstallEngine
    \/ WriteClientConfig
    \/ WriteDaemonConfig
    \/ ServiceStart
    \/ ModifyArgs(CorePool)
    \/ FixArg
    \/ FixSplit
    \/ FixOptKeep
    \/ FixOptConvert
    \/ FixJoin
    \/ FixDone
    \/ Forward
    \/ Restart

\* invocations of the tool, one after the other, from a machine with nothing set up
Spec == Init /\ [][Next]_vars

\* an invocation on a machine that is set up, after ensure_native_docker_cli
\* and ensure_docker have returned Ok: the context is listed, the probe
\* succeeded, the service start ran
InitArgs ==
    /\ cliExists = TRUE
    /\ ctxListed = TRUE
    /\ archive = TRUE
    /\ imported = TRUE
    /\ installed = TRUE
    /\ cfgClient = TRUE
    /\ cfgDaemon = TRUE
    /\ pc = "modify"
    /\ args0 = <<>>
    /\ args = <<>>
    /\ i = 0
    /\ is_mount_option = FALSE
    /\ opts = <<>>
    /\ k = 0
    /\ log = <<Output("context ls", "docker.exe", FALSE, Exited(0)),
               RunInWsl("probe", Exited(0)),
               RunInWsl("start", Exited(0))>>
    /\ xlate = <<>>
    /\ errMsg = ""
    /\ exitCode = 0
    /\ forwarded = <<>>

NextArgs ==
    \/ ModifyArgs(ArgPool)
    \/ FixArg
    \/ FixSplit
    \/ FixOptKeep
    \/ FixOptConvert
    \/ FixJoin
    \/ FixDone
    \/ Forward

\* the argument rewriter and the forward, over every vector of ArgPool
SpecArgs == InitArgs /\ [][NextArgs]_vars

(***************************************************************************)
(* Vocabulary of the properties of the argument rewriter.                  *)
(***************************************************************************)
\* modify_args has returned Ok: the vector is final
RewriteDone == pc = "forward" \/ forwarded # <<>>

\* argument j of v is the Mount Specification of a flag: the argument before
\* it equals --mount after trimming and is not itself a specification
RECURSIVE Consumed(_, _)
Consumed(v, j) ==
    /\ j > 1
    /\ IsMountFlag(v[j - 1])
    /\ ~Consumed(v, j - 1)

\* s has no option beginning with source=: an option begins at the first
\* character or right after a comma
NoSourceOpt(s) ==
    \A p \in 1..Len(s) :
        (p = 1 \/ s[p - 1] = Comma) => ~StartsWith(SubSeq(s, p, Len(s)), S_source)

\* <<a, b>>: option b of the Mount Specification at position a begins with source=
SrcPairs(v) ==
    UNION {{<<a, b>> : b \in {c \in 1..Len(Split(v[a])) : IsSourceOpt(Split(v[a])[c])}} :
           a \in {d \in 1..Len(v) : Consumed(v, d)}}

\* the number of the Path Translator call made for option b of argument a
Rank(v, a, b) ==
    Cardinality({p \in SrcPairs(v) : p[1] < a \/ (p[1] = a /\ p[2] < b)}) + 1

\* out is the specification spec with each source= option replaced by source=
\* and the result of the Path Translator call made for it, all else kept
SpecRewritten(v, a, out) ==
    LET in == Split(v[a])
        got == Split(out)
    IN /\ Len(got) = Len(in)
       /\ \A b \in 1..Len(in) :
            IF IsSourceOpt(in[b])
            THEN /\ Rank(v, a, b) <= Len(xlate)
                 /\ xlate[Rank(v, a, b)].from = SourceValue(in[b])
                 /\ got[b] = S_source \o xlate[Rank(v, a, b)].to
            ELSE got[b] = in[b]

\* the same, with the translator result taken from any call made for the value
SpecRewrittenByAnyCall(spec, out) ==
    LET in == Split(spec)
        got == Split(out)
    IN /\ Len(got) = Len(in)
       /\ \A b \in 1..Len(in) :
            IF IsSourceOpt(in[b])
            THEN \E n \in 1..Len(xlate) :
                    /\ xlate[n].from = SourceValue(in[b])
                    /\ got[b] = S_source \o xlate[n].to
            ELSE got[b] = in[b]

(***************************************************************************)
(* C1.  For every argument vector whose first argument is not `create`     *)
(* (the empty vector and vectors holding `--mount` and a specification     *)
(* with source= included), modify_args returns the vector unchanged and    *)
(* the Path Translator is never invoked: the mount pass is not entered, no *)
(* wslpath process is spawned, and what is forwarded is the input.         *)
(***************************************************************************)
C1_NonCreateIdentity ==
    (pc # "modify" /\ (args0 = <<>> \/ args0[1] # S_create)) =>
        /\ args = args0
        /\ xlate = <<>>
        /\ pc \notin {"fix", "opts"}
        /\ \A n \in 1..Len(log) : log[n].cmd # "wslpath"
        /\ forwarded # <<>> => forwarded = <<NativeCliPath>> \o args0

C1_Witness ==
    /\ pc = "exit"
    /\ args0 = <<A_run, S_mount, A_bind>>
    /\ forwarded = <<NativeCliPath, A_run, S_mount, A_bind>>

(***************************************************************************)
(* C2, as amended.  For every vector starting with `create`, once the      *)
(* rewrite has returned, each argument that immediately follows a mount    *)
(* flag (an argument equal to `--mount` after trimming that is not itself  *)
(* the specification of the flag before it) is its comma-separated options *)
(* in the original order, an option beginning with source= being source=   *)
(* followed by the result of the Path Translator call made for its value,  *)
(* every other option kept character for character; the translator is     *)
(* called once per such option, in order.                                  *)
(***************************************************************************)
C2_MountSpecRewritten ==
    (RewriteDone /\ args0 # <<>> /\ args0[1] = S_create) =>
        /\ Len(args) = Len(args0)
        /\ Len(xlate) = Cardinality(SrcPairs(args0))
        /\ \A a \in 1..Len(args0) :
            Consumed(args0, a) => SpecRewritten(args0, a, args[a])

C2_Witness ==
    /\ pc = "exit"
    /\ args0 = <<S_create, S_mount, A_bind>>
    /\ forwarded # <<>>
    /\ xlate = <<[from |-> <<"C",":","\\","a">>, to |-> <<"/","m","n","t","/","c","/","a">>]>>
    /\ args[3] = <<"t","y","p","e","=","b",",">> \o S_source
                 \o <<"/","m","n","t","/","c","/","a",",","t","a","r","g","e","t","=","/","d">>

(***************************************************************************)
(* C2, as stated.  For every vector starting with `create`, each argument  *)
(* that immediately follows a `--mount` argument is its options with every *)
(* source= value replaced by a Path Translator result for it.              *)
(***************************************************************************)
C2_AsStated ==
    (RewriteDone /\ args0 # <<>> /\ args0[1] = S_create) =>
        \A a \in 2..Len(args0) :
            args0[a - 1] = S_mount => SpecRewrittenByAnyCall(args0[a], args[a])

(***************************************************************************)
(* C3.  In a `create` vector, a Mount Specification with no option         *)
(* beginning with source= (the empty string, a single option, empty        *)
(* options between commas) is returned unchanged: split on comma then join *)
(* on comma loses nothing, and no translator call is made for it.          *)
(***************************************************************************)
C3_NoSourceUnchanged ==
    (args0 # <<>> /\ args0[1] = S_create) =>
        \A a \in 1..Len(args0) :
            (Consumed(args0, a) /\ NoSourceOpt(args0[a])) =>
                /\ args[a] = args0[a]
                /\ pc = "opts" /\ i = a => Join(opts) = args0[a]

C3_Witness ==
    /\ pc = "exit"
    /\ forwarded # <<>>
    /\ args0 = <<S_create, S_mount, A_nosrc, A_empty>>
    /\ args = args0

(***************************************************************************)
(* C4.  The vector handed to the native client is the client path followed *)
(* by the input arguments, same count, same order; the argument at a       *)
(* position differs from the input argument at that position only if the   *)
(* vector starts with `create` and the position is that of the             *)
(* specification of a mount flag.                                          *)
(***************************************************************************)
C4_PassThrough ==
    forwarded # <<>> =>
        /\ forwarded[1] = NativeCliPath
        /\ Len(forwarded) = Len(args0) + 1
        /\ \A a \in 1..Len(args0) :
            forwarded[a + 1] # args0[a] =>
                /\ args0[1] = S_create
                /\ Consumed(args0, a)

C4_Witness ==
    /\ pc = "exit"
    /\ args0 = <<S_create, S_mount, A_bind, A_src>>
    /\ Len(forwarded) = 5
    /\ forwarded[4] # A_bind
    /\ forwarded[5] = A_src

(***************************************************************************)
(* Vocabulary of the properties of the readiness steps.                    *)
(***************************************************************************)
\* the commands of setup_docker_distro
BootstrapCmds == {"download", "import", "install", "cfgclient", "cfgdaemon"}

LogCmds == [n \in 1..Len(log) |-> log[n].cmd]

Ran(cmd) == \E n \in 1..Len(log) : log[n].cmd = cmd

\* the command ran and exited non-zero
Failed(e) == e.spawned /\ e.exit # 0

IsPrefix(s, t) == Len(s) <= Len(t) /\ SubSeq(t, 1, Len(s)) = s

\* the log without the commands of ensure_native_docker_cli
ReadinessLog ==
    SelectSeq(LogCmds, LAMBDA c : c \notin {"context ls", "context create"})

\* number of Path Translator calls the vector read asks for
NTranslate ==
    IF args0 # <<>> /\ args0[1] = S_create THEN Cardinality(SrcPairs(args0)) ELSE 0

\* the steps of an invocation that bootstraps, in order
BootstrapRun(withDownload, n) ==
    <<"probe">> \o (IF withDownload THEN <<"download">> ELSE <<>>)
    \o <<"import", "install", "cfgclient", "cfgdaemon", "start">>
    \o [x \in 1..n |-> "wslpath"] \o <<"forward">>

(***************************************************************************)
(* C5.  When the liveness probe succeeds, ensure_docker performs no        *)
(* bootstrap side effect: no staging directory, download, import, install  *)
(* or configuration write; the readiness commands of the invocation are    *)
(* the probe and the service start, once each.                             *)
(***************************************************************************)
C5_ReadyNoBootstrap ==
    (\E n \in 1..Len(log) : log[n].cmd = "probe" /\ Success(log[n])) =>
        /\ \A n \in 1..Len(log) : log[n].cmd \notin BootstrapCmds
        /\ pc \notin {"setup", "download", "import", "install", "cfgclient", "cfgdaemon"}
        /\ IsPrefix(SelectSeq(ReadinessLog, LAMBDA c : c \notin {"wslpath", "forward"}),
                    <<"probe", "start">>)

C5_Witness ==
    /\ pc = "exit"
    /\ forwarded # <<>>
    /\ log[1].cmd = "context ls"
    /\ log[2].cmd = "probe" /\ Success(log[2])
    /\ log[3].cmd = "start"
    /\ log[4].cmd = "forward"

(***************************************************************************)
(* C6.  In an invocation whose probe fails and whose other commands all    *)
(* succeed, the commands run in the order probe, download (only when the   *)
(* archive is absent), import, install, client preference file, daemon     *)
(* configuration file, service start, the path translations of the         *)
(* rewrite, forward, each once; what is forwarded is the rewritten vector. *)
(***************************************************************************)
C6_BootstrapOrder ==
    /\ pc = "download" => ~archive
    /\ (\A n \in 1..Len(log) :
            IF log[n].cmd = "probe" THEN Failed(log[n]) ELSE Success(log[n])) =>
        /\ Ran("probe") =>
            /\ IsPrefix(ReadinessLog, BootstrapRun(Ran("download"), NTranslate))
            /\ (Ran("import") /\ ~Ran("download")) => archive
            /\ (pc = "exit" /\ errMsg = "") =>
                /\ ReadinessLog = BootstrapRun(Ran("download"), NTranslate)
                /\ forwarded = <<NativeCliPath>> \o args
                /\ imported /\ installed /\ cfgClient /\ cfgDaemon

C6_Witness ==
    /\ pc = "exit"
    /\ exitCode = 0
    /\ args0 = <<S_create, S_mount, A_bind>>
    /\ LogCmds = <<"context ls", "context create", "probe", "download", "import",
                   "install", "cfgclient", "cfgdaemon", "start", "wslpath", "forward">>
    /\ \A n \in 1..Len(log) : n # 3 => Success(log[n])
    /\ forwarded = <<NativeCliPath, S_create, S_mount,
                     <<"t","y","p","e","=","b",",">> \o S_source
                     \o <<"/","m","n","t","/","c","/","a",",","t","a","r","g","e","t","=","/","d">> >>

(***************************************************************************)
(* C7.  When the command is forwarded, the exit status of the tool equals  *)
(* the exit status of the forwarded engine command, zero or not.           *)
(***************************************************************************)
C7_ExitStatusMirrored ==
    (pc = "exit" /\ log # <<>> /\ log[Len(log)].cmd = "forward" /\ log[Len(log)].spawned) =>
        exitCode = log[Len(log)].exit

\* the message the invocation ends with when the stage fails
C8_StageMessage(cmd) ==
    CASE cmd = "download" -> "failed to download rootfs"
      [] cmd = "import" -> "failed to import distro"
      [] cmd = "install" -> "failed to install docker engine"
      [] cmd = "cfgclient" -> "failed to set up detach keys"
      [] cmd = "cfgdaemon" -> "failed to set up buildkit"

(***************************************************************************)
(* C8.  A bootstrap command (download, import, engine install, client      *)
(* preference write, daemon configuration write) that exits non-zero is    *)
(* the last command of its invocation: the invocation has ended with a     *)
(* failure status and the message of that stage, and nothing was started,  *)
(* rewritten or forwarded.                                                 *)
(***************************************************************************)
C8_BootstrapFailureAborts ==
    \A n \in 1..Len(log) :
        (log[n].cmd \in BootstrapCmds /\ Failed(log[n])) =>
            /\ n = Len(log)
            /\ pc = "exit"
            /\ exitCode # 0
            /\ errMsg = C8_StageMessage(log[n].cmd)
            /\ args0 = <<>> /\ args = <<>> /\ xlate = <<>>
            /\ forwarded = <<>>

C8_Witness ==
    /\ pc = "exit"
    /\ LogCmds = <<"context ls", "probe", "import", "install", "cfgclient">>
    /\ Failed(log[5])
    /\ errMsg = "failed to set up detach keys"

(***************************************************************************)
(* C9.  A service start that exits non-zero is fatal: the native client is *)
(* never run on the arguments in that invocation, and the invocation ends  *)
(* with a failure status.                                                  *)
(***************************************************************************)
C9_StartFailureFatal ==
    \A n \in 1..Len(log) :
        (log[n].cmd = "start" /\ Failed(log[n])) =>
            /\ \A m \in 1..Len(log) : ~(log[m].cmd = "forward" /\ log[m].spawned)
            /\ pc = "exit" => exitCode # 0

(***************************************************************************)
(* C10.  A Path Translator call whose utility exits non-zero is fatal: the *)
(* native client is never run after it and the invocation ends with a      *)
(* failure status; no mount specification handed to the native client      *)
(* holds a source= value that is empty or was not translated.              *)
(***************************************************************************)
C10_TranslateFailureFatal ==
    /\ \A n \in 1..Len(log) :
        (log[n].cmd = "wslpath" /\ Failed(log[n])) =>
            /\ \A m \in 1..Len(log) : ~(log[m].cmd = "forward" /\ log[m].spawned)
            /\ pc = "exit" => exitCode # 0
    /\ (\E m \in 1..Len(log) : log[m].cmd = "forward" /\ log[m].spawned)
       /\ args0 # <<>> /\ args0[1] = S_create =>
        \A a \in 1..Len(args0) :
            Consumed(args0, a) =>
                \A b \in 1..Len(Split(args0[a])) :
                    IsSourceOpt(Split(args0[a])[b]) =>
                        Split(forwarded[a + 1])[b] =
                            S_source \o WslPathU(SourceValue(Split(args0[a])[b]))

\* the native client was run on the arguments in this invocation
Forwarded == \E m \in 1..Len(log) : log[m].cmd = "forward" /\ log[m].spawned

(***************************************************************************)
(* C11.  When the first argument is `reset-registration` or `stop-daemon`  *)
(* the vector is not handed to the native client; an invocation of         *)
(* `reset-registration` that ends well has run the bootstrap again, the    *)
(* engine install included, even on a machine where it succeeded before.   *)
(***************************************************************************)
C11_ReservedNotForwarded ==
    (args0 # <<>> /\ args0[1] \in {A_reset, A_stop}) =>
        /\ ~Forwarded
        /\ (args0[1] = A_reset /\ pc = "exit" /\ exitCode = 0) =>
            (Ran("import") /\ Ran("install") /\ Ran("cfgclient") /\ Ran("cfgdaemon"))

(***************************************************************************)
(* C12.  If the native client binary does not exist at its expected        *)
(* location, the invocation ends with a non-zero status and the message    *)
(* that names the expected path, and no external command is executed: no   *)
(* context listing, probe, bootstrap stage, service start, path            *)
(* translation or forward.                                                 *)
(***************************************************************************)
C12_MissingCliAborts ==
    ~cliExists =>
        /\ log = <<>>
        /\ pc \in {"cli", "exit"}
        /\ pc = "exit" =>
            /\ exitCode # 0
            /\ errMsg = "failed to find native docker cli at ~/scoop/shims/docker.exe"
        /\ args0 = <<>> /\ xlate = <<>> /\ forwarded = <<>>
        /\ ~archive /\ ~imported /\ ~installed /\ ~ctxListed

C12_Witness ==
    /\ ~cliExists
    /\ pc = "exit"
    /\ exitCode = 1
    /\ errMsg = MsgNoCli
    /\ log = <<>>

(***************************************************************************)
(* C13.  DOCKER_CONTEXT is set only on a spawned process whose program is  *)
(* the native client: no guest-side invocation (probe, install,            *)
(* configuration writes, service start, path translation) and no download  *)
(* or import command is spawned with it; the forwarded command has it.     *)
(***************************************************************************)
C13_ContextOnlyOnNativeClient ==
    \A n \in 1..Len(log) :
        /\ log[n].ctx => log[n].prog = "docker.exe"
        /\ log[n].cmd \in {"probe", "install", "cfgclient", "cfgdaemon", "start",
                           "wslpath", "download", "import"} =>
            (~log[n].ctx /\ log[n].prog \in {"wsl", "curl"})
        /\ log[n].cmd = "forward" => (log[n].ctx /\ log[n].prog = "docker.exe")

C13_Witness ==
    /\ pc = "exit"
    /\ LogCmds = <<"context ls", "context create", "probe", "download", "import",
                   "install", "cfgclient", "cfgdaemon", "start", "wslpath", "forward">>
    /\ log[11].ctx
    /\ \A n \in 1..10 : ~log[n].ctx

(***************************************************************************)
(* C14.  Re-running the tool after an invocation that aborted at a         *)
(* bootstrap stage recovers: an already instantiated guest is not imported *)
(* again, an installed engine is not installed again, and whenever a       *)
(* command is forwarded, import, install and both configuration writes     *)
(* have each succeeded at some point.                                      *)
(***************************************************************************)
C14_RerunRecovers ==
    /\ pc = "import" => ~imported
    /\ pc = "install" => ~installed
    /\ Forwarded => (imported /\ installed /\ cfgClient /\ cfgDaemon)

(***************************************************************************)
(* C15.  Whenever bootstrap runs, the download command is executed if and  *)
(* only if the archive does not exist at its staged path, whatever left it *)
(* there, and the import step comes next in both cases: right after the    *)
(* existence test when the archive is there, right after the download when *)
(* it succeeded.                                                           *)
(***************************************************************************)
C15_DownloadGate ==
    [][/\ (pc = "setup" /\ pc' \notin {"setup", "exit"}) =>
            /\ pc' = IF archive THEN "import" ELSE "download"
            /\ log' = log
       /\ (pc = "download" /\ pc' # "download") =>
            /\ ~archive
            /\ LogCmds' = Append(LogCmds, "download")
            /\ pc' = IF Success(log'[Len(log')]) THEN "import" ELSE "exit"
            /\ pc' = "import" => archive'
       /\ (pc = "import" /\ pc' # "import") =>
            /\ LogCmds' = Append(LogCmds, "import")
            /\ Ran("download") \/ archive
       /\ (pc # "download" /\ pc' = "download") => pc = "setup"
       /\ (pc # "import" /\ pc' = "import") => pc \in {"setup", "download"}
      ]_vars

\* the archive is there although this invocation did not download it, and
\* the import is about to run on it
C15_Witness ==
    /\ pc = "import"
    /\ archive
    /\ ~imported
    /\ LogCmds = <<"context ls", "probe">>

(***************************************************************************)
(* C16.  Every invocation that forwards a command has run the liveness     *)
(* probe exactly once and the service start exactly once, in the order     *)
(* probe, bootstrap (only if the probe failed, and then up to the daemon   *)
(* configuration), service start, forward; the start is run whether the    *)
(* probe succeeded or the bootstrap has just completed, and the probe is   *)
(* run in the invocation itself, not taken from an earlier one.            *)
(***************************************************************************)
C16_ProbeAndStartOnce ==
    Ran("forward") =>
        LET steps == SelectSeq(ReadinessLog, LAMBDA c : c # "wslpath")
            probe == log[CHOOSE n \in 1..Len(log) : log[n].cmd = "probe"]
        IN /\ Ran("probe")
           /\ Cardinality({n \in 1..Len(log) : log[n].cmd = "probe"}) = 1
           /\ Cardinality({n \in 1..Len(log) : log[n].cmd = "start"}) = 1
           /\ Success(probe) => steps = <<"probe", "start", "forward">>
           /\ ~Success(probe) =>
                steps = <<"probe">> \o (IF Ran("download") THEN <<"download">> ELSE <<>>)
                        \o <<"import", "install", "cfgclient", "cfgdaemon", "start", "forward">>

C16_Witness ==
    /\ pc = "exit"
    /\ args0 = <<A_run>>
    /\ LogCmds = <<"context ls", "probe", "import", "install", "cfgclient",
                   "cfgdaemon", "start", "forward">>
    /\ Failed(log[2])
    /\ log[8].spawned

(***************************************************************************)
(* C17.  In the mount pass over a `create` vector an argument is a mount   *)
(* flag iff it equals `--mount` after trimming and is not itself the       *)
(* specification of the flag before it: the loop takes an argument as a    *)
(* specification exactly when it follows such a flag, every other argument *)
(* (the X of `--mount --mount X`, a `--mount=<spec>` argument, anything    *)
(* after a non-flag) is left as it is, one translation is made per source= *)
(* option of a specification, and the pass raises no error of its own, a   *)
(* trailing `--mount` included.                                            *)
(***************************************************************************)
C17_MountFlagRule ==
    (args0 # <<>> /\ args0[1] = S_create) =>
        /\ (pc = "fix" /\ i <= Len(args0)) => (is_mount_option <=> Consumed(args0, i))
        /\ pc = "opts" => Consumed(args0, i)
        /\ \A a \in 1..Len(args0) : ~Consumed(args0, a) => args[a] = args0[a]
        /\ Cardinality({n \in 1..Len(log) : log[n].cmd = "wslpath" /\ log[n].spawned})
             <= Cardinality(SrcPairs(args0))
        /\ (pc = "exit" /\ errMsg # "") =>
             (~log[Len(log)].spawned \/ log[Len(log)].cmd = "forward")

C17_Witness ==
    /\ pc = "exit"
    /\ exitCode = 0
    /\ args0 = <<S_create, S_mount, S_mount, A_src>>
    /\ args = args0
    /\ xlate = <<>>

(***************************************************************************)
(* C18.  The context is created only when the context listing does not     *)
(* contain the context name: after the listing the invocation goes to the  *)
(* probe when the name is listed, running no create command, and to the    *)
(* creation when it is not; a creation that exits non-zero ends the        *)
(* invocation with a failure before the probe, so that no guest command    *)
(* and no forward is executed.                                             *)
(***************************************************************************)
C18_ContextCreatedWhenMissing ==
    /\ [](\A n \in 1..Len(log) :
            (log[n].cmd = "context create" /\ Failed(log[n])) =>
                /\ n = Len(log)
                /\ pc = "exit"
                /\ exitCode # 0
                /\ errMsg = "failed to create docker context"
                /\ \A m \in 1..Len(log) : log[m].prog = "docker.exe")
    /\ [][/\ (pc = "ctxls" /\ pc' # "ctxls" /\ log'[Len(log')].spawned) =>
               /\ LogCmds' = <<"context ls">>
               /\ pc' = IF ctxListed /\ log'[1].exit = 0 THEN "probe" ELSE "ctxcreate"
          /\ (pc # "ctxcreate" /\ pc' = "ctxcreate") => pc = "ctxls"
          /\ (pc = "ctxcreate" /\ pc' # "ctxcreate") =>
               /\ LogCmds' = <<"context ls", "context create">>
               /\ pc' = IF Success(log'[2]) THEN "probe" ELSE "exit"
               /\ pc' = "probe" => ctxListed'
          /\ (pc # "probe" /\ pc' = "probe") =>
               ~\E n \in 1..Len(log') : log'[n].cmd = "context create" /\ ~Success(log'[n])
         ]_vars

C18_Witness ==
    /\ pc = "exit"
    /\ LogCmds = <<"context ls", "context create">>
    /\ log[1].spawned
    /\ Failed(log[2])
    /\ errMsg = MsgContext
    /\ exitCode = 1

====
